---- MODULE Spec2Model ----
(***************************************************************************)
(* A model of movie-night.js: the Watchlist class and its localStorage     *)
(* mirror, the search form, the countdown timer and the Pick handler.      *)
(*                                                                         *)
(* JavaScript values are encoded as strings: a watched field is one of     *)
(* "undefined", "true", "false", "null" (the literals) or "yes" (a string  *)
(* value, standing for any truthy non-boolean).  A JavaScript string that  *)
(* the code inspects (form input) is a sequence of one-character strings.  *)
(* A JSON text is the sequence of its lexical tokens, separators omitted.  *)
(***************************************************************************)
EXTENDS Integers, Sequences, FiniteSets, TLC

VARIABLES
    script,         \* "start" before line 139 ran, "running" once the listeners are registered, "crashed" after an uncaught exception at top level
    items,          \* watchlist.items
    store,          \* localStorage['movieWatchlist']
    lastPickStore,  \* localStorage['movieWatchlistLastPick']
    timers,         \* the intervals created by runCountdown, in creation order, with the closure of each
    fetches,        \* the requests MovieService.search has in flight
    resultsEl,      \* the results panel
    errorEl,        \* the inline error line and the inputs carrying the 'invalid' class
    countdownEl,    \* the countdown line
    pickedEl,       \* the "Tonight's Pick" line
    lastCall        \* history: the operation that ran last, its arguments, its return value, watchlist.items before it

vars == <<script, items, store, lastPickStore, timers, fetches, resultsEl,
          errorEl, countdownEl, pickedEl, lastCall>>

----------------------------------------------------------------------------
(* Bounds *)
(* NumIds: the imdbIDs in play.  MaxTimers: the countdowns started in one  *)
(* run.  MaxSeconds: the longest countdown tried.  MaxFetches: the requests *)
(* in flight at once.  MaxResults: the rows of one search response.         *)

NumIds == 2
MaxTimers == 2
MaxSeconds == 4
MaxFetches == 1
MaxResults == 1

----------------------------------------------------------------------------
(* Values *)

AllIds == <<"tt1", "tt2", "tt3", "tt4">>
AllTitles == <<"Up", "Heat", "Alien", "Jaws">>

Ids == {AllIds[i] : i \in 1..NumIds}

TitleOf(id) == AllTitles[CHOOSE i \in 1..NumIds : AllIds[i] = id]

WatchedInputs == {"undefined", "true", "false", "null", "yes"}

\* The objects a caller can pass to Watchlist.add.
Catalog == {[imdbID |-> id, Title |-> TitleOf(id), watched |-> w] : id \in Ids, w \in WatchedInputs}

\* The objects of a search response: Title, Year, imdbID, Poster, and no watched.
SearchRows == {m \in Catalog : m.watched = "undefined"}

\* !v
Falsy(v) == v \in {"undefined", "false", "null"}

Not(v) == IF Falsy(v) THEN "true" ELSE "false"

TypeofUndefined(v) == v = "undefined"

Range(s) == {s[i] : i \in DOMAIN s}

IdsOf(its) == {its[i].imdbID : i \in DOMAIN its}

\* The texts of the countdown line.
PickingIn(t) == [msg |-> "Picking in", t |-> t]
Message(msg) == [msg |-> msg, t |-> 0]

Call(op, arg, ret, before) == [op |-> op, arg |-> arg, ret |-> ret, before |-> before]

----------------------------------------------------------------------------
(* JSON *)

Punct(c) == [t |-> "punct", v |-> c]
Str(s) == [t |-> "str", v |-> s]
Lit(l) == [t |-> "lit", v |-> l]

\* The JSON text of a value of the watched field.
ValueText(v) == IF v \in {"true", "false", "null"} THEN Lit(v) ELSE Str(v)

\* JSON.stringify of one entry: a property whose value is undefined is left out.
StringifyObject(e) ==
    <<Punct("{"), Str("imdbID"), Str(e.imdbID), Str("Title"), Str(e.Title)>>
    \o (IF e.watched = "undefined" THEN <<>> ELSE <<Str("watched"), ValueText(e.watched)>>)
    \o <<Punct("}")>>

RECURSIVE StringifyElements(_)
StringifyElements(its) ==
    IF its = <<>> THEN <<>>
    ELSE StringifyObject(Head(its)) \o StringifyElements(Tail(its))

JSON_stringify(its) == <<Punct("[")>> \o StringifyElements(its) \o <<Punct("]")>>

EmptyObject == [imdbID |-> "undefined", Title |-> "undefined", watched |-> "undefined"]

SetProperty(obj, key, val) ==
    IF key = "imdbID" THEN [obj EXCEPT !.imdbID = val]
    ELSE IF key = "Title" THEN [obj EXCEPT !.Title = val]
    ELSE IF key = "watched" THEN [obj EXCEPT !.watched = val]
    ELSE obj

\* The members of an object from position i on: [ok, obj, next].
RECURSIVE ParseMembers(_, _, _)
ParseMembers(text, i, obj) ==
    IF i > Len(text) THEN [ok |-> FALSE, obj |-> obj, next |-> i]
    ELSE IF text[i] = Punct("}") THEN [ok |-> TRUE, obj |-> obj, next |-> i + 1]
    ELSE IF text[i].t = "str" /\ i + 1 <= Len(text) /\ text[i + 1].t \in {"str", "lit"}
              /\ (text[i + 1].t = "lit" => text[i + 1].v \in {"true", "false", "null"})
         THEN ParseMembers(text, i + 2, SetProperty(obj, text[i].v, text[i + 1].v))
    ELSE [ok |-> FALSE, obj |-> obj, next |-> i]

\* The elements of an array from position i on: [ok, value].
RECURSIVE ParseElements(_, _, _)
ParseElements(text, i, acc) ==
    IF i > Len(text) THEN [ok |-> FALSE, value |-> acc]
    ELSE IF text[i] = Punct("]") THEN [ok |-> i = Len(text), value |-> acc]
    ELSE IF text[i] = Punct("{")
         THEN LET m == ParseMembers(text, i + 1, EmptyObject)
              IN  IF m.ok THEN ParseElements(text, m.next, Append(acc, m.obj))
                  ELSE [ok |-> FALSE, value |-> acc]
    ELSE [ok |-> FALSE, value |-> acc]

\* JSON.parse: ok = FALSE is the SyntaxError it throws.
JSON_parse(text) ==
    IF text # <<>> /\ text[1] = Punct("[") THEN ParseElements(text, 2, <<>>)
    ELSE [ok |-> FALSE, value |-> <<>>]

----------------------------------------------------------------------------
(* localStorage *)

\* getItem returns null for a key that was never set.
NullItem == [has |-> FALSE, text |-> <<>>]
Item(text) == [has |-> TRUE, text |-> text]

\* raw ? ... : ...  -- null and the empty string are falsy
Truthy(raw) == raw.has /\ raw.text # <<>>

\* A value cut off in the middle: JSON.parse throws on it.
TruncatedText == <<Punct("["), Punct("{"), Str("imdbID")>>

----------------------------------------------------------------------------
(* class Watchlist *)

\* load(): the items it leaves, and whether JSON.parse threw (the assignment then never happens).
WatchlistLoad(raw, its) ==
    IF Truthy(raw)
    THEN LET parsed == JSON_parse(raw.text)
         IN  IF parsed.ok THEN [thrown |-> FALSE, items |-> parsed.value]
             ELSE [thrown |-> TRUE, items |-> its]
    ELSE [thrown |-> FALSE, items |-> <<>>]

\* save(): the value setItem writes.
WatchlistSave(its) == Item(JSON_stringify(its))

\* add without the `exists` test.
WatchlistAddUnchecked(its, movie) ==
    LET movieToAdd == IF TypeofUndefined(movie.watched)
                      THEN [movie EXCEPT !.watched = "false"]
                      ELSE movie
    IN  [items |-> Append(its, movieToAdd), saved |-> TRUE]

\* add without the call of save().
WatchlistAddUnsaved(its, movie) ==
    LET exists == \E i \in DOMAIN its : its[i].imdbID = movie.imdbID
        movieToAdd == IF TypeofUndefined(movie.watched)
                      THEN [movie EXCEPT !.watched = "false"]
                      ELSE movie
    IN  IF ~exists THEN [items |-> Append(its, movieToAdd), saved |-> FALSE]
        ELSE [items |-> its, saved |-> FALSE]

\* add without the default of watched.
WatchlistAddNoDefault(its, movie) ==
    LET exists == \E i \in DOMAIN its : its[i].imdbID = movie.imdbID
    IN  IF ~exists THEN [items |-> Append(its, movie), saved |-> TRUE]
        ELSE [items |-> its, saved |-> FALSE]

\* add(movie): the items it leaves, and whether it called save().
WatchlistAdd(its, movie) ==
    LET exists == \E i \in DOMAIN its : its[i].imdbID = movie.imdbID
        movieToAdd == IF TypeofUndefined(movie.watched)
                      THEN [movie EXCEPT !.watched = "false"]
                      ELSE movie
    IN  IF ~exists THEN [items |-> Append(its, movieToAdd), saved |-> TRUE]
        ELSE [items |-> its, saved |-> FALSE]

\* remove written as items.splice(items.findIndex(...), 1): with no match the
\* index is -1 and the last entry goes.
WatchlistRemoveSplice(its, imdbID) ==
    LET matches == {i \in DOMAIN its : its[i].imdbID = imdbID}
        at == IF matches = {} THEN Len(its)
              ELSE CHOOSE k \in matches : \A j \in matches : k <= j
    IN  [i \in 1..(IF its = <<>> THEN 0 ELSE Len(its) - 1) |-> IF i < at THEN its[i] ELSE its[i + 1]]

\* remove(imdbID): the items it leaves; it always calls save().
WatchlistRemove(its, imdbID) ==
    SelectSeq(its, LAMBDA m : m.imdbID # imdbID)

\* The loop of the watchlist-title click handler: the first match is toggled.
ToggleWatched(its, imdbID) ==
    LET matches == {i \in DOMAIN its : its[i].imdbID = imdbID}
    IN  IF matches = {} THEN its
        ELSE LET i == CHOOSE k \in matches : \A j \in matches : k <= j
             IN  [its EXCEPT ![i].watched = Not(its[i].watched)]

Unwatched(its) == SelectSeq(its, LAMBDA m : Falsy(m.watched))

\* randomPick returning this.items[idx] in place of unwatched[idx].
RandomPickIndexesOfItems(its) ==
    IF Len(Unwatched(its)) = 0 THEN {}
    ELSE {idx + 1 : idx \in 0..(Len(Unwatched(its)) - 1)}

\* randomPick(): the positions in items it can return, one per value of
\* Math.floor(Math.random() * unwatched.length); {} when it returns null.
RandomPickIndexes(its) ==
    LET positions == {i \in DOMAIN its : Falsy(its[i].watched)}
    IN  IF Len(Unwatched(its)) = 0 THEN {}
        ELSE {i \in positions :
                \E idx \in 0..(Len(Unwatched(its)) - 1) :
                    Cardinality({j \in positions : j < i}) = idx}

\* randomPick(): its possible return values, <<>> for null and <<m>> for an entry.
RandomPickReturns(its) ==
    IF RandomPickIndexes(its) = {} THEN {<<>>}
    ELSE {<<its[i]>> : i \in RandomPickIndexes(its)}

----------------------------------------------------------------------------
(* runCountdown *)

Tick(t) == [cb |-> "onTick", arg |-> t]
Done == [cb |-> "onDone", arg |-> 0]

\* runCountdown(seconds, onTick, onDone) up to its return: the interval it
\* created, with `remaining`, the calls made so far of the two callbacks, and
\* what the callbacks close over (<<>>, or the pick of the Pick handler).
RunCountdown(seconds, closure) ==
    [seconds |-> seconds, remaining |-> seconds, active |-> TRUE,
     log |-> <<Tick(seconds)>>, closure |-> closure]

\* The interval callback with `remaining < 0` as its test.
IntervalCallbackLate(t) ==
    LET remaining == t.remaining - 1
    IN  IF remaining < 0
        THEN [t EXCEPT !.remaining = remaining, !.active = FALSE, !.log = Append(@, Done)]
        ELSE [t EXCEPT !.remaining = remaining, !.log = Append(@, Tick(remaining))]

\* The interval callback, lines 21-30; clearInterval(id) ends the interval.
IntervalCallback(t) ==
    LET remaining == t.remaining - 1
    IN  IF remaining <= 0
        THEN [t EXCEPT !.remaining = remaining, !.active = FALSE, !.log = Append(@, Done)]
        ELSE [t EXCEPT !.remaining = remaining, !.log = Append(@, Tick(remaining))]

\* `pick` is a reference to an object of items.  A closure holds the object's
\* state and whether the object is still the entry of items with its imdbID:
\* remove() drops the object from items, and a toggle changes it in place.
Detach(tms, imdbID) ==
    [i \in DOMAIN tms |->
        IF tms[i].closure # <<>> /\ tms[i].closure[1].pick.imdbID = imdbID
        THEN [tms[i] EXCEPT !.closure[1].inItems = FALSE]
        ELSE tms[i]]

Toggled(tms, imdbID) ==
    [i \in DOMAIN tms |->
        IF tms[i].closure # <<>> /\ tms[i].closure[1].inItems /\ tms[i].closure[1].pick.imdbID = imdbID
        THEN [tms[i] EXCEPT !.closure[1].pick.watched = Not(@)]
        ELSE tms[i]]

----------------------------------------------------------------------------
(* The page: what localStorage can hold when it opens *)

ListEntries == {m \in Catalog : m.watched # "undefined"}

RECURSIVE ListsOver(_)
ListsOver(ids) ==
    {<<>>} \cup UNION {{<<m>> \o rest : m \in {e \in ListEntries : e.imdbID = id},
                                    rest \in ListsOver(ids \ {id})} : id \in ids}

\* The lists an earlier session can have saved.
SavedLists == ListsOver(Ids)

InitialStores ==
    {NullItem, Item(<<>>), Item(TruncatedText)} \cup {WatchlistSave(l) : l \in SavedLists}

NoCall == Call("none", <<>>, <<>>, <<>>)

\* The state after `new Watchlist('movieWatchlist')`, line 138.
Init ==
    /\ script = "start"
    /\ items = <<>>
    /\ store \in InitialStores
    /\ lastPickStore = NullItem
    /\ timers = <<>>
    /\ fetches = <<>>
    /\ resultsEl = [view |-> "blank", cards |-> <<>>]
    /\ errorEl = [text |-> "", invalid |-> {}]
    /\ countdownEl = Message("")
    /\ pickedEl = ""
    /\ lastCall = NoCall

\* Lines 139-140 and the registration of the listeners: an exception thrown by
\* load() is uncaught and ends the script before any listener exists.
PageLoad ==
    /\ script = "start"
    /\ LET r == WatchlistLoad(store, items)
       IN  /\ items' = r.items
           /\ script' = IF r.thrown THEN "crashed" ELSE "running"
    /\ lastCall' = Call("load", <<>>, <<>>, items)
    /\ UNCHANGED <<store, lastPickStore, timers, fetches, resultsEl, errorEl, countdownEl, pickedEl>>

\* watchlist.add(m); renderWatchlist()  -- the Add button of a result card.
\* renderWatchlist rebuilds one card per entry of items, so the cards of the
\* watchlist panel always carry exactly the imdbIDs of items.
AddMovie(m) ==
    /\ script = "running"
    /\ LET r == WatchlistAdd(items, m)
       IN  /\ items' = r.items
           /\ store' = IF r.saved THEN WatchlistSave(r.items) ELSE store
    /\ lastCall' = Call("add", <<m>>, <<>>, items)
    /\ UNCHANGED <<script, lastPickStore, timers, fetches, resultsEl, errorEl, countdownEl, pickedEl>>

\* watchlist.remove(imdbID)
Remove(imdbID) ==
    /\ script = "running"
    /\ items' = WatchlistRemove(items, imdbID)
    /\ store' = WatchlistSave(items')
    /\ timers' = Detach(timers, imdbID)
    /\ lastCall' = Call("remove", <<imdbID>>, <<>>, items)
    /\ UNCHANGED <<script, lastPickStore, fetches, resultsEl, errorEl, countdownEl, pickedEl>>

\* The remove-btn click handler; imdbID is read from a card of the panel.
RemoveClick(imdbID) ==
    /\ imdbID \in IdsOf(items)
    /\ Remove(imdbID)

\* The watchlist-title click handler; imdbID is read from a card of the panel.
ToggleClick(imdbID) ==
    /\ script = "running"
    /\ imdbID \in IdsOf(items)
    /\ items' = ToggleWatched(items, imdbID)
    /\ store' = WatchlistSave(items')
    /\ timers' = Toggled(timers, imdbID)
    /\ lastCall' = Call("toggle", <<imdbID>>, <<>>, items)
    /\ UNCHANGED <<script, lastPickStore, fetches, resultsEl, errorEl, countdownEl, pickedEl>>

\* A call of watchlist.randomPick().
RandomPick ==
    /\ script = "running"
    /\ \E ret \in RandomPickReturns(items) : lastCall' = Call("randomPick", <<>>, ret, items)
    /\ UNCHANGED <<script, items, store, lastPickStore, timers, fetches, resultsEl, errorEl, countdownEl, pickedEl>>

Next ==
    \/ PageLoad
    \/ \E m \in Catalog : AddMovie(m)
    \/ \E id \in Ids : Remove(id)
    \/ \E id \in Ids : ToggleClick(id)
    \/ RandomPick

Spec == Init /\ [][Next]_vars

----------------------------------------------------------------------------
(* runCountdown on its own, with callbacks that record their calls *)

CountdownInit ==
    /\ script = "running"
    /\ items = <<>>
    /\ store = NullItem
    /\ lastPickStore = NullItem
    /\ timers = <<>>
    /\ fetches = <<>>
    /\ resultsEl = [view |-> "blank", cards |-> <<>>]
    /\ errorEl = [text |-> "", invalid |-> {}]
    /\ countdownEl = Message("")
    /\ pickedEl = ""
    /\ lastCall = NoCall

StartCountdown(seconds) ==
    /\ Len(timers) < MaxTimers
    /\ timers' = Append(timers, RunCountdown(seconds, <<>>))
    /\ lastCall' = Call("runCountdown", <<seconds>>, <<Len(timers) + 1>>, items)
    /\ UNCHANGED <<script, items, store, lastPickStore, fetches, resultsEl, errorEl, countdownEl, pickedEl>>

\* The browser runs the callback of interval i, one second after its last run.
\* Intervals of different countdowns run in any order: the handlers are
\* atomic (one event-loop task each), and nothing orders two timers.
CountdownInterval(i) ==
    /\ i \in DOMAIN timers
    /\ timers[i].active
    /\ timers[i].closure = <<>>
    /\ timers' = [timers EXCEPT ![i] = IntervalCallback(@)]
    /\ lastCall' = Call("interval", <<i>>, <<>>, items)
    /\ UNCHANGED <<script, items, store, lastPickStore, fetches, resultsEl, errorEl, countdownEl, pickedEl>>

CountdownNext ==
    \/ \E seconds \in 1..MaxSeconds : StartCountdown(seconds)
    \/ \E i \in 1..MaxTimers : CountdownInterval(i)

CountdownSpec == CountdownInit /\ [][CountdownNext]_vars

\* An interval that was not cleared fires again: the event loop runs its callback.
FairCountdownSpec ==
    CountdownSpec /\ \A i \in 1..MaxTimers : WF_vars(CountdownInterval(i))

----------------------------------------------------------------------------
(* The Pick button *)

CountdownSeconds == 3

PageInit ==
    /\ script = "start"
    /\ items = <<>>
    /\ store \in {NullItem, Item(TruncatedText)}
    /\ lastPickStore = NullItem
    /\ timers = <<>>
    /\ fetches = <<>>
    /\ resultsEl = [view |-> "blank", cards |-> <<>>]
    /\ errorEl = [text |-> "", invalid |-> {}]
    /\ countdownEl = Message("")
    /\ pickedEl = ""
    /\ lastCall = NoCall

\* The pick-btn click handler, lines 195-226.
PickClick ==
    /\ script = "running"
    /\ pickedEl' = ""
    /\ \E ret \in RandomPickReturns(items) :
        /\ lastCall' = Call("pick", <<>>, ret, items)
        /\ IF ret = <<>>
           THEN /\ countdownEl' = IF Len(items) = 0
                                  THEN Message("Your watchlist is empty.")
                                  ELSE Message("All movies are marked as watched.")
                /\ timers' = timers
           ELSE /\ Len(timers) < MaxTimers
                /\ timers' = Append(timers, RunCountdown(CountdownSeconds,
                                        <<[pick |-> ret[1], inItems |-> TRUE]>>))
                /\ countdownEl' = PickingIn(CountdownSeconds)
    /\ UNCHANGED <<script, items, store, lastPickStore, fetches, resultsEl, errorEl>>

\* The browser runs the callback of an interval that the Pick handler created:
\* onTick and onDone are the two functions of lines 215-224.
PickInterval(i) ==
    /\ i \in DOMAIN timers
    /\ timers[i].active
    /\ timers[i].closure # <<>>
    /\ LET t == IntervalCallback(timers[i])
           pick == timers[i].closure[1].pick
       IN  /\ timers' = [timers EXCEPT ![i] = t]
           /\ IF t.active
              THEN /\ countdownEl' = PickingIn(t.remaining)
                   /\ lastCall' = Call("tick", <<i>>, <<>>, items)
                   /\ UNCHANGED <<pickedEl, lastPickStore>>
              ELSE /\ countdownEl' = Message("")
                   /\ pickedEl' = pick.Title
                   /\ lastPickStore' = Item(StringifyObject(pick))
                   /\ lastCall' = Call("done", <<i>>, <<pick>>, items)
    /\ UNCHANGED <<script, items, store, fetches, resultsEl, errorEl>>

PickNext ==
    \/ PageLoad
    \/ \E m \in SearchRows : AddMovie(m)
    \/ \E id \in Ids : RemoveClick(id)
    \/ \E id \in Ids : ToggleClick(id)
    \/ PickClick
    \/ \E i \in 1..MaxTimers : PickInterval(i)

PickSpec == PageInit /\ [][PickNext]_vars

----------------------------------------------------------------------------
(* validateSearchInput *)

\* A value that is undefined, or a string given by its characters.
Undefined == [def |-> FALSE, s |-> <<>>]
String(chars) == [def |-> TRUE, s |-> chars]

WhiteSpace == {" ", "\t"}
Digits == {"0", "1", "2", "3", "4", "5", "6", "7", "8", "9"}

RECURSIVE TrimStart(_)
TrimStart(s) == IF s # <<>> /\ Head(s) \in WhiteSpace THEN TrimStart(Tail(s)) ELSE s

RECURSIVE TrimEnd(_)
TrimEnd(s) ==
    IF s # <<>> /\ s[Len(s)] \in WhiteSpace THEN TrimEnd(SubSeq(s, 1, Len(s) - 1)) ELSE s

\* String.prototype.trim
Trim(s) == TrimEnd(TrimStart(s))

\* !v for a string or undefined
FalsyString(v) == ~v.def \/ v.s = <<>>

\* /\d{4}/.test(s): four digits anywhere in s.
TestFourDigitsUnanchored(s) ==
    \E p \in 0..Len(s) : p + 4 <= Len(s) /\ \A k \in 1..4 : s[p + k] \in Digits

\* The matcher of /^\d{4}$/ from position i on, having read `count` digits.
RECURSIVE MatchDigits(_, _, _)
MatchDigits(s, i, count) ==
    IF count = 4 THEN i = Len(s) + 1
    ELSE IF i > Len(s) THEN FALSE
    ELSE IF s[i] \in Digits THEN MatchDigits(s, i + 1, count + 1)
    ELSE FALSE

\* /^\d{4}$/.test(s)
TestFourDigits(s) == MatchDigits(s, 1, 0)

TitleRequired == "Title is required."
YearFormat == "Year must be 4 digits (or leave blank)."

TitleMissing(title) == FalsyString(title) \/ Trim(title.s) = <<>>

YearMalformed(year) == ~FalsyString(year) /\ Trim(year.s) # <<>> /\ ~TestFourDigits(Trim(year.s))

ValidateSearchInput(title, year) ==
    IF TitleMissing(title) THEN [ok |-> FALSE, message |-> TitleRequired]
    ELSE IF YearMalformed(year) THEN [ok |-> FALSE, message |-> YearFormat]
    ELSE [ok |-> TRUE, message |-> ""]

TitleStrings ==
    {<<>>, <<" ", " ">>, <<"\t">>, <<"U", "p">>, <<" ", "U", "p", " ">>}

YearStrings ==
    {<<>>, <<" ">>, <<"0", "9">>, <<"2", "0", "0", "9">>, <<" ", "2", "0", "0", "9", "\t">>,
     <<"2", "0", "a", "9">>, <<"2", "0", "0", "9", "5">>, <<"2", " ", "0", "9">>, <<"2", "0", "0">>}

TitleValues == {Undefined} \cup {String(c) : c \in TitleStrings}
YearValues == {Undefined} \cup {String(c) : c \in YearStrings}

ValidateInit ==
    /\ script = "running"
    /\ items = <<>>
    /\ store = NullItem
    /\ lastPickStore = NullItem
    /\ timers = <<>>
    /\ fetches = <<>>
    /\ resultsEl = [view |-> "blank", cards |-> <<>>]
    /\ errorEl = [text |-> "", invalid |-> {}]
    /\ countdownEl = Message("")
    /\ pickedEl = ""
    /\ \E title \in TitleValues, year \in YearValues :
          lastCall = Call("arguments", <<title, year>>, <<>>, <<>>)

\* A call of validateSearchInput with the arguments drawn.
Validate ==
    /\ lastCall.op = "arguments"
    /\ lastCall' = Call("validateSearchInput", lastCall.arg,
                        <<ValidateSearchInput(lastCall.arg[1], lastCall.arg[2])>>, <<>>)
    /\ UNCHANGED <<script, items, store, lastPickStore, timers, fetches, resultsEl, errorEl, countdownEl, pickedEl>>

ValidateNext == Validate

ValidateSpec == ValidateInit /\ [][ValidateNext]_vars

----------------------------------------------------------------------------
(* The search form and MovieService *)

\* buildSearchUrl: the query parameters; y is <<>> when the year is left out.
BuildSearchUrl(title, year) ==
    [apikey |-> "API_KEY", s |-> title,
     y |-> IF ~FalsyString(String(year)) /\ Trim(year) # <<>> THEN <<Trim(year)>> ELSE <<>>]

InvalidInputs(title, year) ==
    (IF TitleMissing(title) THEN {"title"} ELSE {})
    \cup (IF YearMalformed(year) THEN {"year"} ELSE {})

Blank == [view |-> "blank", cards |-> <<>>]

\* The submit handler without the `return` of line 172.
SubmitHandlerFallsThrough(title, year, inflight) ==
    LET validation == ValidateSearchInput(title, year)
    IN  [errorEl |-> IF validation.ok THEN [text |-> "", invalid |-> {}]
                     ELSE [text |-> validation.message, invalid |-> InvalidInputs(title, year)],
         resultsEl |-> [view |-> "Searching...", cards |-> <<>>],
         fetches |-> Append(inflight, BuildSearchUrl(Trim(title.s), Trim(year.s)))]

\* The submit handler, lines 144-192 up to the call of fetch: what it leaves in
\* the error line, the results panel and the requests in flight.
SubmitHandler(title, year, inflight) ==
    LET validation == ValidateSearchInput(title, year)
    IN  IF ~validation.ok
        THEN [errorEl |-> [text |-> validation.message, invalid |-> InvalidInputs(title, year)],
              resultsEl |-> Blank,
              fetches |-> inflight]
        ELSE [errorEl |-> [text |-> "", invalid |-> {}],
              resultsEl |-> [view |-> "Searching...", cards |-> <<>>],
              fetches |-> Append(inflight, BuildSearchUrl(Trim(title.s), Trim(year.s)))]

\* renderResults(movies); movies = <<>> stands for an empty or missing array.
RenderResults(movies) ==
    IF movies = <<>> THEN [view |-> "No results found.", cards |-> <<>>]
    ELSE [view |-> "cards", cards |-> movies]

RECURSIVE RowsUpTo(_)
RowsUpTo(n) ==
    IF n = 0 THEN {<<>>}
    ELSE RowsUpTo(n - 1) \cup
         {Append(rows, m) : rows \in {r \in RowsUpTo(n - 1) : Len(r) = n - 1},
                            m \in SearchRows}

\* What a request can end in: a rejected fetch, a response with res.ok false,
\* or a body: null, {Response: 'False'}, or {Response: 'True', Search: [...]}.
Responses ==
    {[status |-> "rejected", data |-> <<>>], [status |-> "not ok", data |-> <<>>],
     [status |-> "ok", data |-> <<>>],
     [status |-> "ok", data |-> <<[Response |-> "False", Search |-> <<>>]>>]}
    \cup {[status |-> "ok", data |-> <<[Response |-> "True", Search |-> rows]>>] :
            rows \in RowsUpTo(MaxResults)}

\* The then/catch of lines 179-191.
SearchSettled(response) ==
    IF response.status # "ok" THEN [view |-> "Error fetching movies.", cards |-> <<>>]
    ELSE IF response.data = <<>> THEN RenderResults(<<>>)
    ELSE IF response.data[1].Response = "False" THEN RenderResults(<<>>)
    ELSE RenderResults(response.data[1].Search)

RemoveAt(seq, i) == [k \in 1..(Len(seq) - 1) |-> IF k < i THEN seq[k] ELSE seq[k + 1]]

\* The submit of the search form with the two input values.
SubmitForm(title, year) ==
    /\ script = "running"
    /\ LET r == SubmitHandler(String(title), String(year), fetches)
       IN  /\ Len(r.fetches) <= MaxFetches
           /\ errorEl' = r.errorEl
           /\ resultsEl' = r.resultsEl
           /\ fetches' = r.fetches
           /\ lastCall' = Call("submit", <<String(title), String(year)>>,
                               SubSeq(r.fetches, Len(fetches) + 1, Len(r.fetches)), items)
    /\ UNCHANGED <<script, items, store, lastPickStore, timers, countdownEl, pickedEl>>

\* The promise of request i settles.
FetchSettle(i, response) ==
    /\ script = "running"
    /\ i \in DOMAIN fetches
    /\ fetches' = RemoveAt(fetches, i)
    /\ resultsEl' = SearchSettled(response)
    /\ lastCall' = Call("settle", <<fetches[i]>>, <<response>>, items)
    /\ UNCHANGED <<script, items, store, lastPickStore, timers, errorEl, countdownEl, pickedEl>>

\* The Add button of card j of the results panel.
AddClick(j) ==
    /\ j \in DOMAIN resultsEl.cards
    /\ AddMovie(resultsEl.cards[j])

SearchNext ==
    \/ PageLoad
    \/ \E title \in TitleStrings, year \in YearStrings : SubmitForm(title, year)
    \/ \E i \in 1..MaxFetches, response \in Responses : FetchSettle(i, response)
    \/ \E j \in 1..MaxResults : AddClick(j)

SearchSpec == PageInit /\ [][SearchNext]_vars

----------------------------------------------------------------------------
(* Properties of the Watchlist *)

NoDuplicates(its) == \A i, j \in DOMAIN its : its[i].imdbID = its[j].imdbID => i = j

Booleans == {"true", "false"}

Inserted == lastCall.op = "add" /\ Len(items) = Len(lastCall.before) + 1

\* C1: no two entries of watchlist.items share an imdbID, and add(e2) when an
\* entry with e2's imdbID is present leaves items as they were: the entry
\* added first is the one kept.
C1_UniqueIds ==
    /\ NoDuplicates(items)
    /\ (lastCall.op = "add" /\ lastCall.arg[1].imdbID \in IdsOf(lastCall.before))
            => items = lastCall.before

\* An add of an entry that differs from the one already kept under its imdbID.
C1_Witness ==
    /\ lastCall.op = "add"
    /\ \E i \in DOMAIN items :
        /\ items[i].imdbID = lastCall.arg[1].imdbID
        /\ items[i].watched = "true"
        /\ lastCall.arg[1].watched = "undefined"
    /\ Len(items) = 2

\* C2: after add, remove and toggle-watched the value stored under the
\* watchlist's key is the serialization of items, and load() on that key
\* yields a sequence equal to items.
C2_StoreMirrorsItems ==
    lastCall.op \in {"add", "remove", "toggle"} =>
        /\ store = Item(JSON_stringify(items))
        /\ WatchlistLoad(store, <<>>) = [thrown |-> FALSE, items |-> items]

\* An add that appended a second entry, the store holding both.
C2_Witness ==
    /\ Inserted
    /\ Len(items) = 2
    /\ items[1].watched = "true"
    /\ items[2].watched = "null"
    /\ JSON_parse(store.text).value = items

\* C3: load() never ends in an error: with no stored value items is empty, and
\* with a stored value that cannot be decoded load() returns normally and items
\* is empty too.
C3_LoadNeverFails ==
    lastCall.op = "load" =>
        /\ script = "running"
        /\ (~store.has \/ ~JSON_parse(store.text).ok) => items = <<>>

\* C4 as claimed: randomPick() returns null exactly when no entry has
\* watched = false, and otherwise an entry of items with watched = false.
C4_AsClaimed ==
    lastCall.op = "randomPick" =>
        /\ lastCall.ret = <<>> <=> ~\E i \in DOMAIN items : items[i].watched = "false"
        /\ lastCall.ret # <<>> =>
              lastCall.ret[1] \in Range(items) /\ lastCall.ret[1].watched = "false"

\* C4: randomPick() returns null exactly when no entry has a falsy watched (an
\* empty list, or every entry watched); otherwise it returns an entry of items
\* whose watched is falsy, never one whose watched is true, and every entry with
\* a falsy watched is a possible result.
C4_RandomPick ==
    /\ lastCall.op = "randomPick" =>
          /\ lastCall.ret = <<>> <=> ~\E i \in DOMAIN items : Falsy(items[i].watched)
          /\ lastCall.ret # <<>> =>
                /\ lastCall.ret[1] \in Range(items)
                /\ Falsy(lastCall.ret[1].watched)
                /\ lastCall.ret[1].watched # "true"
    /\ \A i \in DOMAIN items : Falsy(items[i].watched) => <<items[i]>> \in RandomPickReturns(items)
    /\ (\A i \in DOMAIN items : ~Falsy(items[i].watched)) => RandomPickReturns(items) = {<<>>}

\* randomPick returned the second entry, the only one not watched.
C4_Witness ==
    /\ lastCall.op = "randomPick"
    /\ Len(items) = 2
    /\ items[1].watched = "true"
    /\ lastCall.ret = <<items[2]>>

\* C6 as claimed: every entry add() inserts has a boolean watched, whatever the
\* watched of the entry passed to add.
C6_AsClaimed ==
    Inserted => items[Len(items)].watched \in Booleans

\* C6: every entry of items has a defined watched (never undefined): add()
\* stores false when the entry passed has no watched and otherwise the value
\* passed, unchanged, so that it is a boolean when the value passed is a boolean
\* or absent; a toggle leaves a boolean.
C6_WatchedDefined ==
    /\ \A i \in DOMAIN items : items[i].watched # "undefined"
    /\ Inserted =>
          items[Len(items)].watched =
              (IF lastCall.arg[1].watched = "undefined" THEN "false" ELSE lastCall.arg[1].watched)
    /\ lastCall.op = "toggle" =>
          \A i \in DOMAIN items : items[i].imdbID = lastCall.arg[1] => items[i].watched \in Booleans

\* add() kept a non-boolean watched.
C6_Witness ==
    /\ Inserted
    /\ lastCall.arg[1].watched = "null"
    /\ items[Len(items)].watched = "null"

----------------------------------------------------------------------------
(* Properties of the countdown *)

\* tick(n), tick(n - 1), ..., tick(m)
TicksDownTo(n, m) == [k \in 1..(n - m + 1) |-> Tick(n - k + 1)]

C5_CallbacksInOrder ==
    \A i \in DOMAIN timers :
        LET t == timers[i]
        IN  IF t.active
            THEN t.remaining >= 1 /\ t.log = TicksDownTo(t.seconds, t.remaining)
            ELSE t.remaining = 0 /\ t.log = Append(TicksDownTo(t.seconds, 1), Done)

\* C5: a countdown started with N >= 1 seconds calls tick(N) at once, then
\* tick(N-1), ..., tick(1), one per run of the interval, then done exactly once;
\* after done the interval is cleared and no callback is called again; and
\* done is called eventually.
C5_Countdown ==
    /\ []C5_CallbacksInOrder
    /\ \A i \in 1..MaxTimers :
          (Len(timers) >= i) ~> (Len(timers) >= i /\ ~timers[i].active)

\* A countdown of 3 seconds that has ended: 3, 2, 1, done.
C5_Witness ==
    \E i \in DOMAIN timers :
        /\ timers[i].seconds = CountdownSeconds
        /\ ~timers[i].active
        /\ timers[i].log = <<Tick(3), Tick(2), Tick(1), Done>>

\* C10: when a countdown started by a Pick click ends, the entry it announces
\* and writes to the last-pick key is at that moment an entry of the watchlist
\* with watched = false, and at most one countdown runs at any time.
C10_PickStillValid ==
    /\ lastCall.op = "done" =>
          /\ lastCall.ret[1] \in Range(items)
          /\ lastCall.ret[1].watched = "false"
          /\ lastPickStore = Item(StringifyObject(lastCall.ret[1]))
    /\ Cardinality({i \in DOMAIN timers : timers[i].active}) <= 1

----------------------------------------------------------------------------
(* Properties of the search form *)

TitleGiven(title) == title.def /\ \E i \in DOMAIN title.s : title.s[i] \notin WhiteSpace

YearAbsentOrBlank(year) == ~year.def \/ \A i \in DOMAIN year.s : year.s[i] \in WhiteSpace

\* White space, four digits, white space.
YearIsFourDigits(year) ==
    /\ year.def
    /\ \E p \in 0..Len(year.s) :
          /\ p + 4 <= Len(year.s)
          /\ \A i \in 1..p : year.s[i] \in WhiteSpace
          /\ \A k \in 1..4 : year.s[p + k] \in Digits
          /\ \A i \in (p + 5)..Len(year.s) : year.s[i] \in WhiteSpace

Passes(title, year) == TitleGiven(title) /\ (YearAbsentOrBlank(year) \/ YearIsFourDigits(year))

\* C8: a submission that fails validation issues no request and changes
\* neither watchlist.items nor either store key; a submission that passes
\* issues exactly one request, and no other step issues one (no retry).
C8_InvalidSubmitIssuesNothing ==
    [][ /\ lastCall'.op = "submit" =>
              IF Passes(lastCall'.arg[1], lastCall'.arg[2])
              THEN /\ Len(fetches') = Len(fetches) + 1
                   /\ SubSeq(fetches', 1, Len(fetches)) = fetches
              ELSE /\ fetches' = fetches
                   /\ items' = items
                   /\ store' = store
                   /\ lastPickStore' = lastPickStore
                   /\ errorEl'.text # ""
        /\ lastCall'.op # "submit" => Len(fetches') <= Len(fetches)
      ]_vars

\* A submission with a malformed year, made with an entry in the watchlist and
\* a request in flight: nothing was issued.
C8_Witness ==
    /\ lastCall.op = "submit"
    /\ lastCall.arg[2] = String(<<"2", "0", "0", "9", "5">>)
    /\ ~Passes(lastCall.arg[1], lastCall.arg[2])
    /\ lastCall.ret = <<>>
    /\ Len(items) = 1
    /\ Len(fetches) = 1
    /\ errorEl.text = YearFormat

\* C9: validateSearchInput(title, year) passes exactly when title is non-empty
\* after trimming and year is absent, blank after trimming, or exactly 4 digits
\* after trimming; a blank title yields the title-required message, also when
\* the year is malformed, and otherwise a malformed year yields the
\* year-format message.
C9_Validation ==
    lastCall.op = "validateSearchInput" =>
        LET title == lastCall.arg[1]
            year == lastCall.arg[2]
            result == lastCall.ret[1]
        IN  /\ result.ok <=> Passes(title, year)
            /\ result.ok => result.message = ""
            /\ ~TitleGiven(title) => result.message = TitleRequired
            /\ (TitleGiven(title) /\ ~result.ok) => result.message = YearFormat

\* The blank title "  " with the malformed year "09": the title message wins.
C9_Witness ==
    /\ lastCall.op = "validateSearchInput"
    /\ lastCall.arg = <<String(<<" ", " ">>), String(<<"0", "9">>)>>
    /\ lastCall.ret = <<[ok |-> FALSE, message |-> TitleRequired]>>

====
